---------------------------- MODULE Spec2Model ----------------------------
(***************************************************************************)
(* A model of the receipt processor of src/main.go: the in-memory map of   *)
(* receipts, the two request handlers (processReceipts, getPoints) and the *)
(* point calculation of getPoints.                                         *)
(*                                                                         *)
(* Strings are sequences of one-character strings, so that the library     *)
(* calls the handlers make on them (strings.Split, strings.TrimSpace,      *)
(* strconv.Atoi, strconv.ParseFloat, the regexp replacement) are computed  *)
(* character by character.                                                 *)
(***************************************************************************)
EXTENDS Integers, Sequences, FiniteSets, TLC

(***************************************************************************)
(* Bounds of the model.                                                    *)
(***************************************************************************)
\* receipts accepted in one run of the server specification
MaxReceipts == 2
\* length of the total strings enumerated by the total-rule specification
MaxTotalLen == 4
\* handler goroutines running at once in the concurrent specification
MaxHandlers == 2

(***************************************************************************)
(* The constants of main.go, lines 19-25.  ITEM_PRICE_MULTIPLIER is 0.2,   *)
(* kept as the fraction 2/10.                                              *)
(***************************************************************************)
VALUE_PER_ALPHANUMERIC_CHAR == 1
VALUE_PER_TWO_ITEMS == 5
ROUND_DOLLAR_AMOUNT_BONUS == 50
MULTIPLE_OF_0_POINT_25_BONUS == 25
ODD_DAY_BONUS == 6
BETWEEN_2PM_AND_4PM_BONUS == 10
ITEM_PRICE_MULTIPLIER_NUM == 2
ITEM_PRICE_MULTIPLIER_DEN == 10

\* net/http status codes used by the handlers
StatusOK == 200
StatusBadRequest == 400
StatusInternalServerError == 500

(***************************************************************************)
(* Characters.                                                             *)
(***************************************************************************)
Digits == <<"0", "1", "2", "3", "4", "5", "6", "7", "8", "9">>

IsDigit(c) == \E i \in 1..Len(Digits) : Digits[i] = c

DigitVal(c) == (CHOOSE i \in 1..Len(Digits) : Digits[i] = c) - 1

Letters ==
    {"a", "b", "c", "d", "e", "f", "g", "h", "i", "j", "k", "l", "m",
     "n", "o", "p", "q", "r", "s", "t", "u", "v", "w", "x", "y", "z",
     "A", "B", "C", "D", "E", "F", "G", "H", "I", "J", "K", "L", "M",
     "N", "O", "P", "Q", "R", "S", "T", "U", "V", "W", "X", "Y", "Z"}

\* the complement of the character class [^a-zA-Z0-9] of line 113
IsAlphanumeric(c) == c \in Letters \/ IsDigit(c)

\* the ASCII white space unicode.IsSpace accepts (strings.TrimSpace)
WhiteSpace == {" ", "\t", "\n", "\r", "\f"}

(***************************************************************************)
(* Library functions on strings, computed as the Go library computes them. *)
(***************************************************************************)
RECURSIVE Pow10(_)
Pow10(n) == IF n <= 0 THEN 1 ELSE 10 * Pow10(n - 1)

\* Go's % : the remainder has the sign of the dividend
GoRem(a, b) == IF a >= 0 THEN a % b ELSE -((-a) % b)

RECURSIVE DigitsValue(_)
DigitsValue(s) ==
    IF s = <<>> THEN 0
    ELSE 10 * DigitsValue(SubSeq(s, 1, Len(s) - 1)) + DigitVal(s[Len(s)])

AllDigits(s) == \A i \in 1..Len(s) : IsDigit(s[i])

HasSign(s) == s # <<>> /\ s[1] \in {"+", "-"}

\* len(regexp.MustCompile(`[^a-zA-Z0-9]+`).ReplaceAllString(s, ""))
AlphanumericLen(s) == Cardinality({i \in 1..Len(s) : IsAlphanumeric(s[i])})

\* strings.Split(s, sep) for a one-character separator: always at least one
\* segment, one more than the number of separators
RECURSIVE Split(_, _)
Split(s, sep) ==
    IF s = <<>> THEN << <<>> >>
    ELSE LET rest == Split(Tail(s), sep)
         IN  IF Head(s) = sep
             THEN << <<>> >> \o rest
             ELSE << <<Head(s)>> \o Head(rest) >> \o Tail(rest)

\* strings.TrimSpace(s)
RECURSIVE TrimLeft(_)
TrimLeft(s) ==
    IF s # <<>> /\ Head(s) \in WhiteSpace THEN TrimLeft(Tail(s)) ELSE s

RECURSIVE TrimRight(_)
TrimRight(s) ==
    IF s # <<>> /\ s[Len(s)] \in WhiteSpace
    THEN TrimRight(SubSeq(s, 1, Len(s) - 1))
    ELSE s

TrimSpace(s) == TrimRight(TrimLeft(s))

\* strconv.Atoi(s): an optional sign and at least one decimal digit; anything
\* else is a syntax error with value 0
Atoi(s) ==
    LET body == IF HasSign(s) THEN Tail(s) ELSE s
    IN  IF body = <<>> \/ ~AllDigits(body)
        THEN [err |-> TRUE, val |-> 0]
        ELSE [err |-> FALSE,
              val |-> IF HasSign(s) /\ s[1] = "-"
                      THEN -DigitsValue(body)
                      ELSE DigitsValue(body)]

(***************************************************************************)
(* strconv.ParseFloat(s, 64) on the plain decimal syntax                   *)
(*     [+-] digits [ . digits ]      (at least one digit)                  *)
(* The value is kept exactly, as  (neg ? -1 : 1) * mant / 10^scale.  The   *)
(* strings of the model have at most a few digits, where the float64       *)
(* tests the handler makes on the value (math.Mod(v, 1) == 0,              *)
(* math.Mod(v, 0.25) == 0, math.Ceil(v * 0.2)) agree with exact            *)
(* arithmetic.  The other spellings ParseFloat accepts (exponents,         *)
(* hexadecimal, inf, nan) use characters no string of the model holds.     *)
(***************************************************************************)
ParseFloat(s) ==
    LET body   == IF HasSign(s) THEN Tail(s) ELSE s
        points == {i \in 1..Len(body) : body[i] = "."}
        dot    == IF points = {} THEN Len(body) + 1
                  ELSE CHOOSE i \in points : TRUE
        int    == SubSeq(body, 1, dot - 1)
        frac   == SubSeq(body, dot + 1, Len(body))
        ok     == /\ Cardinality(points) <= 1
                  /\ AllDigits(int) /\ AllDigits(frac)
                  /\ Len(int) + Len(frac) >= 1
    IN  IF ~ok
        THEN [err |-> TRUE, neg |-> FALSE, mant |-> 0, scale |-> 0]
        ELSE [err |-> FALSE,
              neg |-> HasSign(s) /\ s[1] = "-",
              mant |-> DigitsValue(int \o frac),
              scale |-> Len(frac)]

\* math.Mod(f, num/den) == 0 : f is a whole multiple of num/den (the sign
\* does not matter: the remainder is +0 or -0, both equal to 0)
FloatModIsZero(f, num, den) == (f.mant * den) % (Pow10(f.scale) * num) = 0

\* int(math.Ceil(f * num/den))
FloatMulCeil(f, num, den) ==
    LET n == f.mant * num
        d == Pow10(f.scale) * den
    IN  IF f.neg THEN -(n \div d) ELSE (n + d - 1) \div d


(***************************************************************************)
(* The data of main.go, lines 42-55.  An element of Items is a *Item: nil  *)
(* for a JSON null, else the Item it points to.                            *)
(***************************************************************************)
Item(shortDescription, price) ==
    [nil |-> FALSE, shortDescription |-> shortDescription, price |-> price]

NilItem == [nil |-> TRUE, shortDescription |-> <<>>, price |-> <<>>]

Receipt(retailer, purchaseDate, purchaseTime, total, items) ==
    [retailer |-> retailer, purchaseDate |-> purchaseDate,
     purchaseTime |-> purchaseTime, total |-> total, items |-> items]

\* the json names of the fields of Receipt
ReceiptFields == {"retailer", "purchaseDate", "purchaseTime", "total", "items"}

(***************************************************************************)
(* A request body: either not a JSON document that decodes into a Receipt  *)
(* (a syntax error, a value of the wrong type), or a JSON object holding   *)
(* the fields named in  present  with the values given.                    *)
(***************************************************************************)
JsonObject(present, receipt) ==
    [json |-> "object", present |-> present, value |-> receipt]

EmptyReceipt == Receipt(<<>>, <<>>, <<>>, <<>>, <<>>)

MalformedJson == [json |-> "malformed", present |-> {}, value |-> EmptyReceipt]

NoPayload == [json |-> "none", present |-> {}, value |-> EmptyReceipt]

(***************************************************************************)
(* context.ShouldBindJSON(&receipt), line 76: decode the body into the     *)
(* struct (a field the body lacks keeps its zero value), then validate the *)
(* struct's binding:"required" tags, lines 50-54: a required string is not *)
(* empty, the required slice is not nil.  The elements of Items are not    *)
(* validated, as the tag of line 54 has no "dive".                         *)
(***************************************************************************)
Decoded(p) ==
    [f \in ReceiptFields |->
        IF f \in p.present THEN p.value[f] ELSE <<>>]

ShouldBindJSON(p) ==
    LET r == Decoded(p)
        valid == /\ p.json = "object"
                 /\ r.retailer # <<>>
                 /\ r.purchaseDate # <<>>
                 /\ r.purchaseTime # <<>>
                 /\ r.total # <<>>
                 /\ "items" \in p.present
    IN  [err |-> ~valid,
         receipt |-> Receipt(r.retailer, r.purchaseDate, r.purchaseTime,
                             r.total, r.items)]

(***************************************************************************)
(* The point calculation of getPoints, lines 106-149, rule by rule.        *)
(***************************************************************************)
\* line 113
RetailerPoints(receipt) ==
    AlphanumericLen(receipt.retailer) * VALUE_PER_ALPHANUMERIC_CHAR

\* line 114
ItemPairPoints(receipt) == (Len(receipt.items) \div 2) * VALUE_PER_TWO_ITEMS

\* lines 123-126
RoundDollarPoints(receipt) ==
    LET total == ParseFloat(receipt.total)
    IN  IF ~total.err /\ FloatModIsZero(total, 1, 1)
        THEN ROUND_DOLLAR_AMOUNT_BONUS ELSE 0

\* the quarter rule written as the else branch of the round-dollar rule
QuarterPoints_ElseIf(receipt) ==
    LET total == ParseFloat(receipt.total)
    IN  IF ~total.err /\ ~FloatModIsZero(total, 1, 1)
                     /\ FloatModIsZero(total, 1, 4)
        THEN MULTIPLE_OF_0_POINT_25_BONUS ELSE 0

\* lines 127-129
QuarterPoints(receipt) ==
    LET total == ParseFloat(receipt.total)
    IN  IF ~total.err /\ FloatModIsZero(total, 1, 4)
        THEN MULTIPLE_OF_0_POINT_25_BONUS ELSE 0

\* line 130: strings.Split(receipt.PurchaseDate, "-")[2] is an index out of
\* range, a run-time panic, when the date has fewer than two separators
DayPanics(receipt) == Len(Split(receipt.purchaseDate, "-")) < 3

\* lines 130-133, when line 130 does not panic
OddDayPoints(receipt) ==
    LET day == Atoi(Split(receipt.purchaseDate, "-")[3])
    IN  IF ~day.err /\ GoRem(day.val, 2) = 1 THEN ODD_DAY_BONUS ELSE 0

\* lines 134-137: Split always has a first segment
AfternoonPoints(receipt) ==
    LET hour == Atoi(Split(receipt.purchaseTime, ":")[1])
    IN  IF ~hour.err /\ hour.val >= 14 /\ hour.val < 16
        THEN BETWEEN_2PM_AND_4PM_BONUS ELSE 0

\* line 143: receipt.Items[i].ShortDescription dereferences a nil pointer, a
\* run-time panic, when the element is nil
ItemsPanic(receipt) == \E i \in 1..Len(receipt.items) : receipt.items[i].nil

\* lines 143-148, one turn of the loop
ItemPoints(item) ==
    IF Len(TrimSpace(item.shortDescription)) % 3 = 0
    THEN LET price == ParseFloat(item.price)
         IN  IF ~price.err
             THEN FloatMulCeil(price, ITEM_PRICE_MULTIPLIER_NUM,
                               ITEM_PRICE_MULTIPLIER_DEN)
             ELSE 0
    ELSE 0

\* lines 142-149
RECURSIVE ItemsPoints(_)
ItemsPoints(items) ==
    IF items = <<>> THEN 0
    ELSE ItemPoints(Head(items)) + ItemsPoints(Tail(items))

Panics(receipt) == DayPanics(receipt) \/ ItemsPanic(receipt)

\* the value of  points  at line 152, when no line panics
Points(receipt) ==
    RetailerPoints(receipt) + ItemPairPoints(receipt)
    + RoundDollarPoints(receipt) + QuarterPoints(receipt)
    + OddDayPoints(receipt) + AfternoonPoints(receipt)
    + ItemsPoints(receipt.items)

(***************************************************************************)
(* Responses.  ids holds the id of an Id body (line 87), and is empty for  *)
(* any other body.                                                         *)
(***************************************************************************)
Response(status, ids, points, description) ==
    [status |-> status, ids |-> ids, points |-> points,
     description |-> description]

NoResponse == Response(0, {}, 0, "")

\* line 78
InvalidReceipt == Response(StatusBadRequest, {}, 0, "The receipt is invalid")

\* line 87
IdResponse(id) == Response(StatusOK, {id}, 0, "")

\* line 102
NotFound == Response(StatusBadRequest, {}, 0, "No receipt found for that id")

\* line 152
PointsResponse(points) == Response(StatusOK, {}, points, "")

\* the recovery middleware of gin.Default(), line 61: a panic in a handler
\* is recovered and answered with status 500 and no body
Recovered == Response(StatusInternalServerError, {}, 0, "")

(***************************************************************************)
(* The state.                                                              *)
(*   receipts    the map of line 58, a function from the ids stored to the *)
(*               receipts stored under them                                *)
(*   xidCounter  the number of ids xid.New() has generated (line 83): the  *)
(*               library numbers the ids of a process, so the n-th call    *)
(*               returns an id no earlier call returned; the id is         *)
(*               modelled by n                                             *)
(*   request     the request handled last                                  *)
(*   response    the response written to it                                *)
(*   issued      the ids sent to clients in the Id bodies of line 87       *)
(*   pointsSeen  for each id, the responses getPoints has written for it   *)
(*               since it was issued, each with the number of receipts     *)
(*               accepted before the request                               *)
(*   handlers    the handler goroutines running (concurrent specification) *)
(*   crashed     the Go run time has stopped the process                   *)
(***************************************************************************)
VARIABLES receipts, xidCounter, request, response, issued, pointsSeen,
          handlers, crashed

vars == <<receipts, xidCounter, request, response, issued, pointsSeen,
          handlers, crashed>>

\* the ids a run can generate, and the ids a client may ask for: those and
\* a string that xid never generates
Ids == 1..MaxReceipts

NeverAnId == 0

QueryIds == Ids \cup {NeverAnId}

Request(op, id, payload) == [op |-> op, ids |-> id, payload |-> payload]

NoRequest == Request("none", {}, NoPayload)

\* the map of line 58 is empty when main starts
Init ==
    /\ receipts = <<>>
    /\ xidCounter = 0
    /\ request = NoRequest
    /\ response = NoResponse
    /\ issued = {}
    /\ pointsSeen = [id \in QueryIds |-> {}]
    /\ handlers = <<>>
    /\ crashed = FALSE

\* receipts[id] = receipt, line 84
MapAssign(m, id, receipt) ==
    [k \in DOMAIN m \cup {id} |-> IF k = id THEN receipt ELSE m[k]]

\* processReceipts without the return of line 79: the receipt is stored
\* after the 400 response was written
processReceipts_NoReturn(p) ==
    LET bound == ShouldBindJSON(p)
        id == xidCounter + 1
    IN  /\ request' = Request("process", {}, p)
        /\ xidCounter' = id
        /\ receipts' = MapAssign(receipts, id, bound.receipt)
        /\ response' = IF bound.err THEN InvalidReceipt ELSE IdResponse(id)
        /\ issued' = IF bound.err THEN issued ELSE issued \cup {id}
        /\ UNCHANGED <<pointsSeen, handlers, crashed>>

\* processReceipts with an id that is not fresh: every receipt is stored
\* under the first id
processReceipts_SameId(p) ==
    LET bound == ShouldBindJSON(p)
        id == 1
    IN  /\ request' = Request("process", {}, p)
        /\ IF bound.err
           THEN /\ response' = InvalidReceipt
                /\ UNCHANGED <<receipts, xidCounter, issued>>
           ELSE /\ xidCounter' = xidCounter + 1
                /\ receipts' = MapAssign(receipts, id, bound.receipt)
                /\ response' = IdResponse(id)
                /\ issued' = issued \cup {id}
        /\ UNCHANGED <<pointsSeen, handlers, crashed>>

(***************************************************************************)
(* processReceipts, lines 72-88, run from start to end with no other       *)
(* handler running.                                                        *)
(***************************************************************************)
processReceipts(p) ==
    LET bound == ShouldBindJSON(p)
        id == xidCounter + 1
    IN  /\ request' = Request("process", {}, p)
        /\ IF bound.err
           THEN /\ response' = InvalidReceipt
                /\ UNCHANGED <<receipts, xidCounter, issued>>
           ELSE /\ xidCounter' = id
                /\ receipts' = MapAssign(receipts, id, bound.receipt)
                /\ response' = IdResponse(id)
                /\ issued' = issued \cup {id}
        /\ UNCHANGED <<pointsSeen, handlers, crashed>>

\* the response of getPoints to a receipt found in the map, lines 106-152
Scored(receipt) ==
    IF Panics(receipt) THEN Recovered ELSE PointsResponse(Points(receipt))

\* getPoints without the test of  found  (lines 101-104): an unknown id is
\* scored as the zero Receipt the map lookup returns
getPoints_NoFoundTest(id) ==
    LET found == id \in DOMAIN receipts
        answer == Scored(IF found THEN receipts[id] ELSE EmptyReceipt)
    IN  /\ request' = Request("points", {id}, NoPayload)
        /\ response' = answer
        /\ pointsSeen' = IF id \in issued
                         THEN [pointsSeen EXCEPT ![id] = @ \cup
                                 {[answer |-> answer, after |-> xidCounter]}]
                         ELSE pointsSeen
        /\ UNCHANGED <<receipts, xidCounter, issued, handlers, crashed>>

\* getPoints with  points  kept between requests instead of starting at 0
\* (line 106): the points of the response before are added
getPoints_KeepsPoints(id) ==
    LET found == id \in DOMAIN receipts
        scored == Scored(receipts[id])
        answer == IF ~found THEN NotFound
                  ELSE [scored EXCEPT !.points = @ + response.points]
    IN  /\ request' = Request("points", {id}, NoPayload)
        /\ response' = answer
        /\ pointsSeen' = IF id \in issued
                         THEN [pointsSeen EXCEPT ![id] = @ \cup
                                 {[answer |-> answer, after |-> xidCounter]}]
                         ELSE pointsSeen
        /\ UNCHANGED <<receipts, xidCounter, issued, handlers, crashed>>

\* getPoints that removes the receipt from the map once it is scored
getPoints_Deletes(id) ==
    LET found == id \in DOMAIN receipts
        answer == IF found THEN Scored(receipts[id]) ELSE NotFound
    IN  /\ request' = Request("points", {id}, NoPayload)
        /\ response' = answer
        /\ receipts' = [k \in DOMAIN receipts \ {id} |-> receipts[k]]
        /\ pointsSeen' = IF id \in issued
                         THEN [pointsSeen EXCEPT ![id] = @ \cup
                                 {[answer |-> answer, after |-> xidCounter]}]
                         ELSE pointsSeen
        /\ UNCHANGED <<xidCounter, issued, handlers, crashed>>

(***************************************************************************)
(* getPoints, lines 95-153, run from start to end with no other handler    *)
(* running.                                                                *)
(***************************************************************************)
getPoints(id) ==
    LET found == id \in DOMAIN receipts
        answer == IF found THEN Scored(receipts[id]) ELSE NotFound
    IN  /\ request' = Request("points", {id}, NoPayload)
        /\ response' = answer
        /\ pointsSeen' = IF id \in issued
                         THEN [pointsSeen EXCEPT ![id] = @ \cup
                                 {[answer |-> answer, after |-> xidCounter]}]
                         ELSE pointsSeen
        /\ UNCHANGED <<receipts, xidCounter, issued, handlers, crashed>>

(***************************************************************************)
(* The request bodies of the server specification: a receipt every rule    *)
(* scores, and bodies that differ from it in one field.                    *)
(***************************************************************************)
SampleItems ==
    << Item(<<"a", "b", "c">>, <<"5", ".", "0", "0">>),
       Item(<<" ", "D", "e", "w", " ">>, <<"1", ".", "2", "5">>) >>

\* retailer "M&M", 2022-01-01, 14:33, total 9.00, two items
SampleReceipt ==
    Receipt(<<"M", "&", "M">>,
            <<"2", "0", "2", "2", "-", "0", "1", "-", "0", "1">>,
            <<"1", "4", ":", "3", "3">>,
            <<"9", ".", "0", "0">>,
            SampleItems)

\* retailer "&", 2022-01-02, 13:01, total 1.10, no items: every rule gives 0
PlainReceipt ==
    Receipt(<<"&">>,
            <<"2", "0", "2", "2", "-", "0", "1", "-", "0", "2">>,
            <<"1", "3", ":", "0", "1">>,
            <<"1", ".", "1", "0">>,
            <<>>)

\* purchaseDate values that are not YYYY-MM-DD: one separator, and three
BadDates ==
    { <<"b", "a", "d", "-", "d", "a", "t", "e">>,
      <<"2", "0", "2", "2", "-", "0", "1", "-", "0", "1", "-", "0", "2">> }

\* items values: a negative price, a JSON null element
OddItems ==
    { << Item(<<"a", "b", "c">>, <<"-", "5", "0">>) >>,
      << NilItem >> }

WellFormedPayloads ==
    {JsonObject(ReceiptFields, SampleReceipt),
     JsonObject(ReceiptFields, PlainReceipt)}
    \cup {JsonObject(ReceiptFields, [PlainReceipt EXCEPT !.purchaseDate = d]) :
            d \in BadDates}
    \cup {JsonObject(ReceiptFields, [PlainReceipt EXCEPT !.items = i]) :
            i \in OddItems}

\* bodies ShouldBindJSON refuses: a missing field, an empty string, no JSON
IllFormedPayloads ==
    {JsonObject(ReceiptFields \ {f}, SampleReceipt) :
        f \in {"retailer", "items"}}
    \cup {JsonObject(ReceiptFields, [SampleReceipt EXCEPT !.total = <<>>]),
          MalformedJson}

Payloads == WellFormedPayloads \cup IllFormedPayloads

(***************************************************************************)
(* The server, one request after the other.  A request that would store    *)
(* more than MaxReceipts receipts is left out.                             *)
(***************************************************************************)
Submit(payloads, max) ==
    \E p \in payloads :
        /\ ShouldBindJSON(p).err \/ xidCounter < max
        /\ processReceipts(p)

Query == \E id \in QueryIds : getPoints(id)

Next == Submit(Payloads, MaxReceipts) \/ Query

Spec == Init /\ [][Next]_vars

(***************************************************************************)
(* The total rules on every total: one receipt is submitted, whose total   *)
(* is any string of at most MaxTotalLen of the characters below and whose  *)
(* other fields are those of PlainReceipt, and then scored.                *)
(***************************************************************************)
TotalChars == {"0", "2", "5", "9", ".", "-"}

TotalStrings == UNION {[1..n -> TotalChars] : n \in 0..MaxTotalLen}

TotalPayload(t) == JsonObject(ReceiptFields, [PlainReceipt EXCEPT !.total = t])

SubmitTotal ==
    /\ xidCounter = 0
    /\ \E t \in TotalStrings : processReceipts(TotalPayload(t))

NextTotal == SubmitTotal \/ Query

SpecTotal == Init /\ [][NextTotal]_vars

(***************************************************************************)
(* The server with requests in flight together.  net/http runs each        *)
(* handler in a goroutine of its own, and main.go takes no lock around the *)
(* map of line 58, so the map assignment of line 84 and the map lookup of  *)
(* line 100 are steps that begin and end, and other goroutines run between *)
(* the two.  A map operation that overlaps a map assignment is a data      *)
(* race: the Go run time may stop the process ("fatal error: concurrent    *)
(* map writes", "concurrent map read and map write"), the assignment may   *)
(* be lost, a lookup may miss the key, or the operation may go through.    *)
(***************************************************************************)
Goroutines == 1..MaxHandlers

Handler(op, pc, payload, ids, receipt, found, raced) ==
    [op |-> op, pc |-> pc, payload |-> payload, ids |-> ids,
     receipt |-> receipt, found |-> found, raced |-> raced]

Running == DOMAIN handlers

InMap(g) == handlers[g].pc \in {"assigning", "reading"}

Writing(g) == handlers[g].pc = "assigning"

Without(g) == [k \in Running \ {g} |-> handlers[k]]

\* the goroutines a map operation of g, a write or a read, races with
Conflicting(g, write) ==
    {k \in Running \ {g} : InMap(k) /\ (write \/ Writing(k))}

\* g enters a map operation, going to pc
Enter(g, pc, write) ==
    [k \in Running |->
        IF k = g
        THEN [handlers[g] EXCEPT !.pc = pc,
                                 !.raced = Conflicting(g, write) # {}]
        ELSE IF k \in Conflicting(g, write)
             THEN [handlers[k] EXCEPT !.raced = TRUE]
             ELSE handlers[k]]

ConcPayloads ==
    {JsonObject(ReceiptFields, SampleReceipt),
     JsonObject(ReceiptFields, PlainReceipt),
     JsonObject(ReceiptFields \ {"retailer"}, SampleReceipt)}

\* the router starts a handler for a request, lines 62-63
Serve ==
    /\ ~crashed
    /\ \E g \in Goroutines \ Running :
          /\ \A k \in Goroutines \ Running : g <= k
          /\ \/ \E p \in ConcPayloads :
                  /\ xidCounter
                       + Cardinality({k \in Running :
                            handlers[k].pc \in {"bind", "newid"}})
                       < MaxReceipts
                  /\ handlers' = [k \in Running \cup {g} |->
                        IF k = g
                        THEN Handler("process", "bind", p, {}, EmptyReceipt,
                                     FALSE, FALSE)
                        ELSE handlers[k]]
             \/ \E id \in QueryIds :
                  handlers' = [k \in Running \cup {g} |->
                        IF k = g
                        THEN Handler("points", "lookup", NoPayload, {id},
                                     EmptyReceipt, FALSE, FALSE)
                        ELSE handlers[k]]
    /\ UNCHANGED <<receipts, xidCounter, request, response, issued,
                   pointsSeen, crashed>>

\* processReceipts, lines 73-80
Bind(g) ==
    LET bound == ShouldBindJSON(handlers[g].payload)
    IN  /\ ~crashed
        /\ handlers[g].pc = "bind"
        /\ IF bound.err
           THEN /\ request' = Request("process", {}, handlers[g].payload)
                /\ response' = InvalidReceipt
                /\ handlers' = Without(g)
           ELSE /\ handlers' = [handlers EXCEPT ![g].pc = "newid",
                                                ![g].receipt = bound.receipt]
                /\ UNCHANGED <<request, response>>
        /\ UNCHANGED <<receipts, xidCounter, issued, pointsSeen, crashed>>

\* processReceipts, line 83: xid.New() advances its counter atomically
NewId(g) ==
    /\ ~crashed
    /\ handlers[g].pc = "newid"
    /\ xidCounter' = xidCounter + 1
    /\ handlers' = [handlers EXCEPT ![g].pc = "assign",
                                    ![g].ids = {xidCounter + 1}]
    /\ UNCHANGED <<receipts, request, response, issued, pointsSeen, crashed>>

\* processReceipts, line 84: the map assignment begins
AssignBegin(g) ==
    /\ ~crashed
    /\ handlers[g].pc = "assign"
    /\ handlers' = Enter(g, "assigning", TRUE)
    /\ UNCHANGED <<receipts, xidCounter, request, response, issued,
                   pointsSeen, crashed>>

\* processReceipts, line 84: the map assignment ends
AssignEnd(g) ==
    /\ ~crashed
    /\ handlers[g].pc = "assigning"
    /\ \/ /\ receipts' = [k \in DOMAIN receipts \cup handlers[g].ids |->
                            IF k \in handlers[g].ids THEN handlers[g].receipt
                            ELSE receipts[k]]
          /\ handlers' = [handlers EXCEPT ![g].pc = "respond"]
          /\ UNCHANGED crashed
       \/ /\ handlers[g].raced
          /\ handlers' = [handlers EXCEPT ![g].pc = "respond"]
          /\ UNCHANGED <<receipts, crashed>>
       \/ /\ handlers[g].raced
          /\ crashed' = TRUE
          /\ handlers' = <<>>
          /\ UNCHANGED receipts
    /\ UNCHANGED <<xidCounter, request, response, issued, pointsSeen>>

\* processReceipts, line 87
RespondId(g) ==
    /\ ~crashed
    /\ handlers[g].op = "process"
    /\ handlers[g].pc = "respond"
    /\ request' = Request("process", {}, handlers[g].payload)
    /\ response' = Response(StatusOK, handlers[g].ids, 0, "")
    /\ issued' = issued \cup handlers[g].ids
    /\ handlers' = Without(g)
    /\ UNCHANGED <<receipts, xidCounter, pointsSeen, crashed>>

\* getPoints, line 100: the map lookup begins
LookupBegin(g) ==
    /\ ~crashed
    /\ handlers[g].pc = "lookup"
    /\ handlers' = Enter(g, "reading", FALSE)
    /\ UNCHANGED <<receipts, xidCounter, request, response, issued,
                   pointsSeen, crashed>>

\* getPoints, line 100: the map lookup ends
LookupEnd(g) ==
    /\ ~crashed
    /\ handlers[g].pc = "reading"
    /\ \/ /\ handlers' =
                IF handlers[g].ids \subseteq DOMAIN receipts
                THEN [handlers EXCEPT
                        ![g].pc = "respond",
                        ![g].found = TRUE,
                        ![g].receipt =
                            receipts[CHOOSE id \in handlers[g].ids : TRUE]]
                ELSE [handlers EXCEPT ![g].pc = "respond"]
          /\ UNCHANGED crashed
       \/ /\ handlers[g].raced
          /\ handlers' = [handlers EXCEPT ![g].pc = "respond"]
          /\ UNCHANGED crashed
       \/ /\ handlers[g].raced
          /\ crashed' = TRUE
          /\ handlers' = <<>>
    /\ UNCHANGED <<receipts, xidCounter, request, response, issued,
                   pointsSeen>>

\* getPoints, lines 101-152
RespondPoints(g) ==
    /\ ~crashed
    /\ handlers[g].op = "points"
    /\ handlers[g].pc = "respond"
    /\ request' = Request("points", handlers[g].ids, NoPayload)
    /\ response' = IF handlers[g].found THEN Scored(handlers[g].receipt)
                   ELSE NotFound
    /\ handlers' = Without(g)
    /\ UNCHANGED <<receipts, xidCounter, issued, pointsSeen, crashed>>

NextConc ==
    \/ Serve
    \/ \E g \in Running : Bind(g)
    \/ \E g \in Running : NewId(g)
    \/ \E g \in Running : AssignBegin(g)
    \/ \E g \in Running : AssignEnd(g)
    \/ \E g \in Running : RespondId(g)
    \/ \E g \in Running : LookupBegin(g)
    \/ \E g \in Running : LookupEnd(g)
    \/ \E g \in Running : RespondPoints(g)

SpecConc == Init /\ [][NextConc]_vars

(***************************************************************************)
(* Properties of the server specification.                                 *)
(***************************************************************************)
PointsRequest(id) == Request("points", {id}, NoPayload)

\* C1: an id returned by a successful submit-receipt is a key of the store
\* ever after, and every later get-points for it answers 200 with points,
\* never "No receipt found for that id".
C1_RoundTrip ==
    /\ issued \subseteq DOMAIN receipts
    /\ \A id \in issued :
          request = PointsRequest(id) =>
             /\ response.status = StatusOK
             /\ response # NotFound

\* a body that is no well-formed Receipt: no JSON object, a required field
\* missing, or a required string empty
NotAReceipt(p) ==
    \/ p.json # "object"
    \/ p.present # ReceiptFields
    \/ \E f \in ReceiptFields \ {"items"} : p.value[f] = <<>>

C4_PointsNonNegative ==
    \A id \in DOMAIN receipts :
        (request = PointsRequest(id) /\ response.status = StatusOK) =>
            response.points >= 0

\* a purchaseDate without exactly two "-" or with a day that is no number
MalformedDate(d) ==
    \/ Len(Split(d, "-")) # 3
    \/ Atoi(Split(d, "-")[3]).err

\* C5: get-points for a stored receipt with a malformed purchaseDate answers
\* 200 with the points of the other rules, the odd-day rule giving 0.
C5_MalformedDateScoresZero ==
    \A id \in DOMAIN receipts :
        (request = PointsRequest(id)
         /\ MalformedDate(receipts[id].purchaseDate)) =>
           /\ response.status = StatusOK
           /\ response.points =
                 RetailerPoints(receipts[id]) + ItemPairPoints(receipts[id])
                 + RoundDollarPoints(receipts[id])
                 + QuarterPoints(receipts[id])
                 + AfternoonPoints(receipts[id])
                 + ItemsPoints(receipts[id].items)

\* C7: all the responses get-points has written for an issued id are the
\* same, whatever was requested between them.
C7_SamePointsEachTime ==
    \A id \in QueryIds :
        \A a, b \in pointsSeen[id] : a.answer = b.answer

\* an id was asked for twice, with a receipt accepted between the requests
C7_Witness ==
    \E id \in Ids :
        \E a, b \in pointsSeen[id] :
            /\ a.after < b.after
            /\ a.answer.status = StatusOK
            /\ a.answer.points > 0

\* C8: a successful submit-receipt stores the receipt of its body under an
\* id that was no key of the store and was never issued, and no step
\* changes or removes the receipt stored under an id.
C8_StoredReceiptImmutable ==
    [][/\ \A id \in DOMAIN receipts :
             id \in DOMAIN receipts' /\ receipts'[id] = receipts[id]
       /\ \A id \in DOMAIN receipts' \ DOMAIN receipts :
             /\ id \notin issued
             /\ response' = IdResponse(id)
             /\ receipts'[id] = request'.payload.value]_vars

\* the same receipt was accepted twice and is stored under two ids
C8_Witness ==
    /\ Cardinality(DOMAIN receipts) = 2
    /\ \E i, j \in DOMAIN receipts : i # j /\ receipts[i] = receipts[j]

\* C10: a get-points request, found or not, leaves the store as it was.
C10_GetPointsReadOnly ==
    [][request'.op = "points" => receipts' = receipts]_vars

\* a receipt with items was scored and is still in the store
C10_Witness ==
    \E id \in DOMAIN receipts :
        /\ request = PointsRequest(id)
        /\ response.status = StatusOK
        /\ receipts[id].items # <<>>

(***************************************************************************)
(* Properties of the total rules.  A total is read here as text: a decimal *)
(* numeral is an optional sign and digits around at most one point.        *)
(***************************************************************************)
Unsigned(t) == IF t # <<>> /\ t[1] \in {"+", "-"} THEN Tail(t) ELSE t

PointAt(t) ==
    IF \E i \in 1..Len(t) : t[i] = "."
    THEN CHOOSE i \in 1..Len(t) : t[i] = "."
    ELSE Len(t) + 1

Fraction(t) == SubSeq(Unsigned(t), PointAt(Unsigned(t)) + 1, Len(Unsigned(t)))

IsNumeral(t) ==
    LET u == Unsigned(t)
        digits == {i \in 1..Len(u) : u[i] \in
                     {"0", "1", "2", "3", "4", "5", "6", "7", "8", "9"}}
    IN  /\ digits # {}
        /\ \A i \in 1..Len(u) : i \in digits \/ i = PointAt(u)

RECURSIVE NoTrailingZeros(_)
NoTrailingZeros(s) ==
    IF s # <<>> /\ s[Len(s)] = "0"
    THEN NoTrailingZeros(SubSeq(s, 1, Len(s) - 1))
    ELSE s

IsWhole(t) == NoTrailingZeros(Fraction(t)) = <<>>

IsQuarterMultiple(t) ==
    NoTrailingZeros(Fraction(t)) \in
        {<<>>, <<"2", "5">>, <<"5">>, <<"7", "5">>}

ExpectedTotalPoints(t) ==
    IF IsNumeral(t) /\ IsWhole(t) THEN 75
    ELSE IF IsNumeral(t) /\ IsQuarterMultiple(t) THEN 25
    ELSE 0

\* C9: the two total rules together give 75 for a whole total, 25 for a
\* multiple of 0.25 that is not whole, and 0 for any other total, numeral
\* or not.
C9_TotalRules ==
    \A id \in DOMAIN receipts :
        request = PointsRequest(id) =>
           /\ response.status = StatusOK
           /\ response.points =
                 ExpectedTotalPoints(receipts[id].total)
                 + RetailerPoints(receipts[id]) + ItemPairPoints(receipts[id])
                 + OddDayPoints(receipts[id]) + AfternoonPoints(receipts[id])
                 + ItemsPoints(receipts[id].items)

\* the total "9.00" was scored 75
C9_Witness ==
    \E id \in DOMAIN receipts :
        /\ receipts[id].total = <<"9", ".", "0", "0">>
        /\ request = PointsRequest(id)
        /\ response = PointsResponse(75)

(***************************************************************************)
(* Properties of the server with requests in flight together.              *)
(***************************************************************************)
\* C6: no two handlers are inside the map at the same time with one of them
\* writing, the process is not stopped, and every receipt whose id was
\* returned is in the store.
C6_ExclusiveStoreAccess ==
    /\ \A g, h \in Running :
          (g # h /\ InMap(g) /\ InMap(h)) => ~(Writing(g) \/ Writing(h))
    /\ ~crashed
    /\ issued \subseteq DOMAIN receipts

=============================================================================
